---- MODULE Spec2Model ----
(***************************************************************************)
(* Model of Final_app.py: a Streamlit script that fetches Statcast event   *)
(* data, uploads event and matchup record sets to Snowflake by TRUNCATE    *)
(* followed by write_pandas, and parses a free-form weather string.        *)
(*                                                                         *)
(* Strings are sequences of one-character strings, so that the regular     *)
(* expressions and the case/space conversions are computed character by    *)
(* character.                                                              *)
(***************************************************************************)
EXTENDS Integers, Sequences, FiniteSets, TLC

VARIABLES
    winput,         \* argument s of parse_custom_weather_string_v2
    wresult,        \* the pd.Series it returned, or NotParsed
    pc,             \* position of the script run, "idle" between runs
    trigger,        \* the widget whose interaction started the current run
    rendered,       \* widgets the current (or last) run has put on the page
    start_date,     \* st.date_input("Start Date")
    end_date,       \* st.date_input("End Date")
    matchups_file,  \* st.file_uploader("Upload Matchups CSV")
    connected,      \* get_snowflake_conn() has a cached connection
    df_events,      \* local df_events of the run
    df_matchups,    \* local df_matchups of the run
    table,          \* rows of the warehouse tables event_level_data and matchups
    reports,        \* st.error / st.warning / st.success messages of the run
    calls,          \* calls the run made to external services, in order
    uploads,        \* number of write_pandas calls so far (identifies row batches)
    pre,            \* history: table contents when the run started
    lastOk,         \* history: record set of the last upload reported successful
    seen            \* what a concurrent session last read from a table during the run

wvars == <<winput, wresult>>

uivars == <<start_date, end_date, matchups_file>>

pvars == <<pc, trigger, rendered, start_date, end_date, matchups_file, connected,
           df_events, df_matchups, table, reports, calls, uploads, pre, lastOk, seen>>

vars == <<winput, wresult, pc, trigger, rendered, start_date, end_date, matchups_file,
          connected, df_events, df_matchups, table, reports, calls, uploads, pre,
          lastOk, seen>>

----------------------------------------------------------------------------
(* Characters                                                              *)

LowerChars == <<"a","b","c","d","e","f","g","h","i","j","k","l","m",
                "n","o","p","q","r","s","t","u","v","w","x","y","z">>

UpperChars == <<"A","B","C","D","E","F","G","H","I","J","K","L","M",
                "N","O","P","Q","R","S","T","U","V","W","X","Y","Z">>

DigitChars == <<"0","1","2","3","4","5","6","7","8","9">>

IsDigit(c) == \E i \in 1..10 : DigitChars[i] = c

IsUpper(c) == \E i \in 1..26 : UpperChars[i] = c

IsLower(c) == \E i \in 1..26 : LowerChars[i] = c

IsSpace(c) == c \in {" ", "\t", "\n", "\r"}

DigitVal(c) == (CHOOSE i \in 1..10 : DigitChars[i] = c) - 1

ToLowerChar(c) ==
    IF IsUpper(c) THEN LowerChars[CHOOSE i \in 1..26 : UpperChars[i] = c] ELSE c

ToUpperChar(c) ==
    IF IsLower(c) THEN UpperChars[CHOOSE i \in 1..26 : LowerChars[i] = c] ELSE c

\* str.lower()
Lower(str) == [i \in 1..Len(str) |-> ToLowerChar(str[i])]

\* str.upper()
Upper(str) == [i \in 1..Len(str) |-> ToUpperChar(str[i])]

\* str.strip()
Strip(str) ==
    LET keep == {i \in 1..Len(str) : ~IsSpace(str[i])}
    IN  IF keep = {} THEN <<>>
        ELSE LET lo == CHOOSE i \in keep : \A j \in keep : i <= j
                 hi == CHOOSE i \in keep : \A j \in keep : j <= i
             IN  SubSeq(str, lo, hi)

\* str.replace(" ", "_")
ReplaceSpaces(str) == [i \in 1..Len(str) |-> IF str[i] = " " THEN "_" ELSE str[i]]

\* int() of a run of decimal digits
RECURSIVE ToInt(_)
ToInt(ds) ==
    IF ds = <<>> THEN 0
    ELSE 10 * ToInt(SubSeq(ds, 1, Len(ds) - 1)) + DigitVal(ds[Len(ds)])

\* needle in hay
Contains(hay, needle) ==
    \E i \in 1..(Len(hay) - Len(needle) + 1) :
        SubSeq(hay, i, i + Len(needle) - 1) = needle

----------------------------------------------------------------------------
(* Regular-expression helpers: positions are 1-based, a position past the  *)
(* end of the string holds no character.                                   *)

At(str, i) == IF i >= 1 /\ i <= Len(str) THEN str[i] ELSE "<end>"

\* s[i..i+k-1] are k digits
DigitsAt(str, i, k) == \A j \in 0..(k - 1) : IsDigit(At(str, i + j))

\* number of whitespace characters starting at position p
SpaceRun(str, p) ==
    IF \E j \in 0..Len(str) : ~IsSpace(At(str, p + j))
    THEN CHOOSE j \in 0..Len(str) :
            /\ ~IsSpace(At(str, p + j))
            /\ \A m \in 0..(j - 1) : IsSpace(At(str, p + m))
    ELSE 0

\* number of digits starting at position p, at most cap
DigitRun(str, p, cap) ==
    CHOOSE k \in 0..cap :
        /\ DigitsAt(str, p, k)
        /\ (k = cap \/ ~IsDigit(At(str, p + k)))

\* the least element of a non-empty set of integers
Least(S) == CHOOSE x \in S : \A y \in S : x <= y

\* the greatest element of a non-empty set of integers
Greatest(S) == CHOOSE x \in S : \A y \in S : y <= x

NaN == <<>>

Some(v) == <<v>>

Missing == <<"<NA>">>

NotParsed == <<>>

----------------------------------------------------------------------------
(* parse_custom_weather_string_v2                                          *)

OUTDOOR == <<"o","u","t","d","o","o","r">>

INDOOR == <<"i","n","d","o","o","r">>

NANTEXT == <<"n","a","n">>

\* the character class [OIÂ°] of the temperature pattern
TempGlyphs == {"O", "I", "Â", "°"}

\* \s*[OIÂ°]?\s matches at position p
TempRest(str, p) ==
    LET run == SpaceRun(str, p)
    IN  \/ run >= 1
        \/ /\ At(str, p + run) \in TempGlyphs
           /\ IsSpace(At(str, p + run + 1))

\* re.search(r'(\d{2,3})\s*[OIÂ°]?\s', s): the starts and digit counts that match
TempMatches(str) ==
    {m \in (1..Len(str)) \X {2, 3} :
        DigitsAt(str, m[1], m[2]) /\ TempRest(str, m[1] + m[2])}

ParseTemp(str) ==
    LET ms == TempMatches(str)
    IN  IF ms = {} THEN NaN
        ELSE LET i == Least({m[1] : m \in ms})
                 k == Greatest({m[2] : m \in {x \in ms : x[1] = i}})
             IN  Some(ToInt(SubSeq(str, i, i + k - 1)))

\* re.search(r'\d{2,3}\s*([OI])\s', s)
WindVectorMatches(str) ==
    {m \in (1..Len(str)) \X {2, 3} :
        LET p == m[1] + m[2] + SpaceRun(str, m[1] + m[2])
        IN  /\ DigitsAt(str, m[1], m[2])
            /\ At(str, p) \in {"O", "I"}
            /\ IsSpace(At(str, p + 1))}

ParseWindVector(str) ==
    LET ms == WindVectorMatches(str)
    IN  IF ms = {} THEN NaN
        ELSE LET i == Least({m[1] : m \in ms})
                 k == Greatest({m[2] : m \in {x \in ms : x[1] = i}})
             IN  Some(<<At(str, i + k + SpaceRun(str, i + k))>>)

\* re.search(r'\s([A-Z]{2})\s*\d', s)
WindFieldDirMatches(str) ==
    {i \in 1..Len(str) :
        /\ IsSpace(At(str, i))
        /\ IsUpper(At(str, i + 1))
        /\ IsUpper(At(str, i + 2))
        /\ IsDigit(At(str, i + 3 + SpaceRun(str, i + 3)))}

ParseWindFieldDir(str) ==
    LET ms == WindFieldDirMatches(str)
    IN  IF ms = {} THEN NaN
        ELSE LET i == Least(ms) IN Some(SubSeq(str, i + 1, i + 2))

\* re.search(r'(\d{1,3})\s*-\s*(\d{1,3})', s)
MphRangeMatches(str) ==
    {m \in (1..Len(str)) \X {1, 2, 3} :
        LET q == m[1] + m[2] + SpaceRun(str, m[1] + m[2])
        IN  /\ DigitsAt(str, m[1], m[2])
            /\ At(str, q) = "-"
            /\ IsDigit(At(str, q + 1 + SpaceRun(str, q + 1)))}

\* the mean by integer division
MeanFloor(a, b) == [num |-> (a + b) \div 2, den |-> 1]

\* (int(mph.group(1)) + int(mph.group(2))) / 2, as a fraction
Mean(a, b) == [num |-> a + b, den |-> 2]

\* re.search(r'([1-9][0-9]?)\s*(?:mph)?', s)
MphSingleMatches(str) ==
    {i \in 1..Len(str) : IsDigit(At(str, i)) /\ At(str, i) # "0"}

ParseWindMph(str) ==
    LET ms == MphRangeMatches(str)
    IN  IF ms # {}
        THEN LET i == Least({m[1] : m \in ms})
                 k == Greatest({m[2] : m \in {x \in ms : x[1] = i}})
                 q == i + k + SpaceRun(str, i + k)
                 r == q + 1 + SpaceRun(str, q + 1)
                 n == DigitRun(str, r, 3)
             IN  Some(Mean(ToInt(SubSeq(str, i, i + k - 1)),
                           ToInt(SubSeq(str, r, r + n - 1))))
        ELSE LET ss == MphSingleMatches(str)
             IN  IF ss = {} THEN NaN
                 ELSE LET i == Least(ss)
                          n == DigitRun(str, i, 2)
                      IN  Some([num |-> ToInt(SubSeq(str, i, i + n - 1)), den |-> 1])

\* re.search(r'(\d{1,3})%', s)
HumidityMatches(str) ==
    {m \in (1..Len(str)) \X {1, 2, 3} :
        DigitsAt(str, m[1], m[2]) /\ At(str, m[1] + m[2]) = "%"}

ParseHumidity(str) ==
    LET ms == HumidityMatches(str)
    IN  IF ms = {} THEN NaN
        ELSE LET i == Least({m[1] : m \in ms})
                 k == Greatest({m[2] : m \in {x \in ms : x[1] = i}})
             IN  Some(ToInt(SubSeq(str, i, i + k - 1)))

ParseCondition(str) ==
    IF Contains(Lower(str), OUTDOOR) THEN Some(OUTDOOR)
    ELSE IF Contains(Lower(str), INDOOR) THEN Some(INDOOR)
    ELSE NaN

\* how an f-string renders a captured group or np.nan
Fmt(x) == IF x = NaN THEN NANTEXT ELSE x[1]

\* f"{wind_vector} {wind_field_dir}".strip()
WindDirString(wind_vector, wind_field_dir) ==
    Strip(Fmt(wind_vector) \o <<" ">> \o Fmt(wind_field_dir))

AllNaN ==
    [temp |-> NaN, wind_vector |-> NaN, wind_field_dir |-> NaN, wind_mph |-> NaN,
     humidity |-> NaN, condition |-> NaN, wind_dir_string |-> NaN]

parse_custom_weather_string_v2(str) ==
    IF str = Missing THEN AllNaN
    ELSE LET wind_vector == ParseWindVector(str)
             wind_field_dir == ParseWindFieldDir(str)
         IN  [temp |-> ParseTemp(str),
              wind_vector |-> wind_vector,
              wind_field_dir |-> wind_field_dir,
              wind_mph |-> ParseWindMph(str),
              humidity |-> ParseHumidity(str),
              condition |-> ParseCondition(str),
              wind_dir_string |-> Some(WindDirString(wind_vector, wind_field_dir))]

----------------------------------------------------------------------------
(* Bounds and inputs                                                       *)

MaxRows == 1

MaxOld == 1

MaxUploads == 2

MaxTokens == 3

Tables == {"event_level_data", "matchups"}

\* the days the two date inputs are set to: the range is invalid when the start
\* is day 3
StartDates == {1, 3}

EndDates == {2}

GAME_DATE == <<"g","a","m","e","_","d","a","t","e">>

WEATHER_STR == <<"w","e","a","t","h","e","r","_","s","t","r">>

\* index of the Series parse_custom_weather_string_v2 returns
ExtractNames ==
    << <<"t","e","m","p">>,
       <<"w","i","n","d","_","v","e","c","t","o","r">>,
       <<"w","i","n","d","_","f","i","e","l","d","_","d","i","r">>,
       <<"w","i","n","d","_","m","p","h">>,
       <<"h","u","m","i","d","i","t","y">>,
       <<"c","o","n","d","i","t","i","o","n">>,
       <<"w","i","n","d","_","d","i","r","_","s","t","r","i","n","g">> >>

\* "72O SW 10-15mph 55% outdoor"
SampleWeather ==
    <<"7","2","O"," ","S","W"," ","1","0","-","1","5","m","p","h"," ",
      "5","5","%"," ","o","u","t","d","o","o","r">>

NoWeather == <<"<no weather_str>">>

\* header rows of the matchup CSV files a user may upload
MatchupHeaders ==
    { << <<"a">> >>,
      << <<"a">>, <<"A">>, <<"a">> >>,
      << WEATHER_STR >>,
      << WEATHER_STR, <<"t","e","m","p">> >> }

HasColumn(cols, name) == \E i \in 1..Len(cols) : cols[i] = name

\* a CSV file: its header row and its number of data rows; the file without a
\* header row is the empty file
Files ==
    {[header |-> h, nrows |-> n] : h \in MatchupHeaders, n \in 0..MaxRows}
    \cup {[header |-> <<>>, nrows |-> 0]}

NoFile == [header |-> <<>>, nrows |-> -1]

\* the weather_str cell of the i-th row of a file that has the column: the sample
\* description in odd rows, a missing value in even rows
WeatherCell(h, i) ==
    IF ~HasColumn(h, WEATHER_STR) THEN NoWeather
    ELSE IF i % 2 = 1 THEN SampleWeather ELSE Missing

\* column names statcast() may return
EventHeaders ==
    { << GAME_DATE >>,
      << GAME_DATE, <<"A">>, <<"a">> >>,
      << GAME_DATE, <<" ","a"," ","b">> >> }

NoDf == [defined |-> FALSE, columns |-> <<>>, rows |-> <<>>]

\* the rows of a frame read from one source: cell values other than the weather
\* description are not represented
SourceRows(src, n) ==
    [i \in 1..n |-> [src |-> src, i |-> i, weather |-> WeatherCell(src, i), extract |-> <<>>]]

\* rows a table holds before the first upload
OldRows(n) ==
    {[batch |-> 0, data |-> [src |-> <<>>, i |-> i, weather |-> NoWeather, extract |-> <<>>]] :
        i \in 1..n}

----------------------------------------------------------------------------
(* Record normalisation                                                    *)

\* c.strip().lower().replace(" ", "_")
CanonColumn(c) == ReplaceSpaces(Lower(Strip(c)))

CanonColumns(cols) == [i \in 1..Len(cols) |-> CanonColumn(cols[i])]

\* [c.upper() for c in df.columns]
UpperColumns(cols) == [i \in 1..Len(cols) |-> Upper(cols[i])]

\* df.columns.duplicated(): a name is a duplicate when it occurred before
Duplicated(cols, i) == \E j \in 1..(i - 1) : cols[j] = cols[i]

RECURSIVE KeepFirst(_, _)
KeepFirst(cols, n) ==
    IF n = 0 THEN <<>>
    ELSE IF Duplicated(cols, n) THEN KeepFirst(cols, n - 1)
    ELSE Append(KeepFirst(cols, n - 1), cols[n])

\* df.loc[:, ~df.columns.duplicated()]
dedup_columns(df) == [df EXCEPT !.columns = KeepFirst(df.columns, Len(df.columns))]

\* pd.read_csv renames the k-th repetition of a header name to name.k
MangleDupes(header) ==
    [i \in 1..Len(header) |->
        LET k == Cardinality({j \in 1..(i - 1) : header[j] = header[i]})
        IN  IF k = 0 THEN header[i] ELSE header[i] \o <<".", DigitChars[k + 1]>>]

\* pd.read_csv(matchups_file), which raises on a file without columns
ReadCsvRaises(f) == f.header = <<>>

read_csv(f) ==
    [defined |-> TRUE, columns |-> MangleDupes(f.header),
     rows |-> SourceRows(f.header, f.nrows)]

\* df['weather_str'].apply(parse_custom_weather_string_v2) and pd.concat(axis=1):
\* the seven extract columns are appended; applied to a frame without rows, apply
\* returns the empty weather_str Series itself, which concat appends as a column
ConcatWeather(df) ==
    IF Len(df.rows) = 0
    THEN [df EXCEPT !.columns = Append(df.columns, WEATHER_STR)]
    ELSE [defined |-> TRUE,
          columns |-> df.columns \o ExtractNames,
          rows |-> [i \in 1..Len(df.rows) |->
                      [df.rows[i] EXCEPT
                          !.extract = <<parse_custom_weather_string_v2(df.rows[i].weather)>>]]]

----------------------------------------------------------------------------
(* Warehouse                                                               *)

\* rows a write_pandas call numbered b loads from a frame
NewRows(df, b) == {[batch |-> b, data |-> df.rows[i]] : i \in 1..Len(df.rows)}

\* the cell data of a set of rows, whatever call loaded them
DataOf(rows) == {r.data : r \in rows}

\* a TRUNCATE that leaves the rows in place
TruncatedKeepsRows(rows) == rows

\* TRUNCATE TABLE leaves no row
Truncated(rows) == {}

\* a write_pandas call that has loaded the frame when it raises
InsertRaisedAfterLoading(rows, new) == rows \cup new

\* a write_pandas call that raises loads nothing
InsertRaised(rows, new) == rows

\* a write_pandas call that returns success loads every row of the frame
InsertLoaded(rows, new) == rows \cup new

NoUpload == [ok |-> FALSE, data |-> {}]

NotSeen == [table |-> "none", rows |-> {}, uploading |-> FALSE, old |-> {}, new |-> {}]

----------------------------------------------------------------------------
(* The script: one run per user interaction                                *)

Report(kind, tbl, n) == [kind |-> kind, table |-> tbl, n |-> n]

Call(op, tbl, outcome, columns) ==
    [op |-> op, table |-> tbl, outcome |-> outcome, columns |-> columns]

\* the comparison of the two dates the wrong way round
DateRangeInvalidSwapped(s, e) == e > s

\* start_date > end_date
DateRangeInvalid(s, e) == s > e

\* an emptiness test that never holds
FetchedEmptyNever(df) == FALSE

\* df_events.empty
FetchedEmpty(df) == Len(df.rows) = 0

\* where TRUNCATE TABLE and write_pandas of each upload are, and where the script
\* goes on after the upload
TruncatePc == [t \in Tables |-> IF t = "event_level_data" THEN "L106" ELSE "L146"]

InsertPc == [t \in Tables |-> IF t = "event_level_data" THEN "L108" ELSE "L147"]

AfterUploadPc == [t \in Tables |-> IF t = "event_level_data" THEN "L121" ELSE "L160"]

UploadTrigger ==
    [t \in Tables |-> IF t = "event_level_data" THEN "upload_events" ELSE "upload_matchups"]

\* the frame an upload of table t loads
FrameOf(t) == IF t = "event_level_data" THEN df_events ELSE df_matchups

\* Streamlit reruns the script from the top: locals and page start afresh
BeginRun(trig) ==
    /\ pc' = "L26"
    /\ trigger' = trig
    /\ rendered' = {}
    /\ df_events' = NoDf
    /\ df_matchups' = NoDf
    /\ reports' = <<>>
    /\ calls' = <<>>
    /\ pre' = table
    /\ seen' = NotSeen
    /\ UNCHANGED <<connected, table, uploads, lastOk, winput, wresult>>

\* st.stop(), or the end of the script: the locals of the run are gone
EndRun ==
    /\ pc' = "idle"
    /\ df_events' = NoDf
    /\ df_matchups' = NoDf
    /\ seen' = NotSeen

Init ==
    /\ winput = <<>>
    /\ wresult = NotParsed
    /\ pc = "L26"
    /\ trigger = "load"
    /\ rendered = {}
    /\ start_date = 1
    /\ end_date = 2
    /\ matchups_file = NoFile
    /\ connected = FALSE
    /\ df_events = NoDf
    /\ df_matchups = NoDf
    /\ table \in {[t \in Tables |-> OldRows(n)] : n \in 0..MaxOld}
    /\ reports = <<>>
    /\ calls = <<>>
    /\ uploads = 0
    /\ pre = table
    /\ lastOk = [t \in Tables |-> NoUpload]
    /\ seen = NotSeen

(* User interactions, possible on the widgets the last run rendered *)

\* the browser opens the page again: a new session with default widget values
Reload ==
    /\ pc = "idle"
    /\ start_date' = 1
    /\ end_date' = 2
    /\ matchups_file' = NoFile
    /\ BeginRun("load")

SetDates ==
    /\ pc = "idle"
    /\ "dates" \in rendered
    /\ \E s \in StartDates, e \in EndDates :
        /\ <<s, e>> # <<start_date, end_date>>
        /\ start_date' = s
        /\ end_date' = e
    /\ UNCHANGED matchups_file
    /\ BeginRun("dates")

ClickFetch ==
    /\ pc = "idle"
    /\ "fetch" \in rendered
    /\ UNCHANGED uivars
    /\ BeginRun("fetch")

ClickUploadEvents ==
    /\ pc = "idle"
    /\ "upload_events" \in rendered
    /\ uploads < MaxUploads
    /\ UNCHANGED uivars
    /\ BeginRun("upload_events")

ChooseFile ==
    /\ pc = "idle"
    /\ "uploader" \in rendered
    /\ \E f \in Files \cup {NoFile} :
        /\ f # matchups_file
        /\ matchups_file' = f
    /\ UNCHANGED <<start_date, end_date>>
    /\ BeginRun("file")

ClickUploadMatchups ==
    /\ pc = "idle"
    /\ "upload_matchups" \in rendered
    /\ uploads < MaxUploads
    /\ UNCHANGED uivars
    /\ BeginRun("upload_matchups")

SubmitFeatures ==
    /\ pc = "idle"
    /\ "features_form" \in rendered
    /\ UNCHANGED uivars
    /\ BeginRun("features")

(* Steps of a script run *)

\* conn = get_snowflake_conn(): the singleton connects on its first call only
Connect ==
    /\ pc = "L26"
    /\ IF connected
       THEN /\ pc' = "L71"
            /\ UNCHANGED <<connected, calls, reports, df_events, df_matchups, seen>>
       ELSE \E ok \in BOOLEAN :
            /\ connected' = ok
            /\ calls' = Append(calls, Call("connect", "none",
                                           IF ok THEN "ok" ELSE "raise", <<>>))
            /\ IF ok
               THEN /\ pc' = "L71"
                    /\ UNCHANGED <<reports, df_events, df_matchups, seen>>
               ELSE /\ reports' = Append(reports, Report("exception", "none", 0))
                    /\ EndRun
    /\ UNCHANGED <<trigger, rendered, uivars, table, uploads, pre, lastOk, wvars>>

\* the two date inputs and the check of the range
CheckDates ==
    /\ pc = "L71"
    /\ rendered' = rendered \cup {"dates"}
    /\ IF DateRangeInvalid(start_date, end_date)
       THEN /\ reports' = Append(reports, Report("date_error", "none", 0))
            /\ EndRun
       ELSE /\ pc' = "L81"
            /\ UNCHANGED <<reports, df_events, df_matchups, seen>>
    /\ UNCHANGED <<trigger, uivars, connected, table, calls, uploads, pre, lastOk, wvars>>

\* if st.button("Fetch Event Data"): true only in the run its click started
FetchButton ==
    /\ pc = "L81"
    /\ rendered' = rendered \cup {"fetch"}
    /\ pc' = IF trigger = "fetch" THEN "L84" ELSE "L121"
    /\ UNCHANGED <<trigger, uivars, connected, df_events, df_matchups, table, reports,
                   calls, uploads, pre, lastOk, seen, wvars>>

\* statcast(start, end) raises, or returns a frame that may have no rows
Fetch ==
    /\ pc = "L84"
    /\ \E raised \in BOOLEAN, h \in EventHeaders, n \in 0..MaxRows :
        LET df == [defined |-> TRUE, columns |-> h, rows |-> SourceRows(h, n)]
        IN  IF raised
            THEN /\ calls' = Append(calls, Call("statcast", "none", "raise", <<>>))
                 /\ reports' = Append(reports, Report("fetch_error", "none", 0))
                 /\ EndRun
            ELSE /\ calls' = Append(calls, Call("statcast", "none",
                                                IF n = 0 THEN "empty" ELSE "rows", h))
                 /\ IF FetchedEmpty(df)
                    THEN /\ reports' = Append(reports, Report("no_data", "none", 0))
                         /\ EndRun
                    ELSE /\ df_events' = df
                         /\ pc' = "L92"
                         /\ UNCHANGED <<reports, df_matchups, seen>>
    /\ UNCHANGED <<trigger, rendered, uivars, connected, table, uploads, pre, lastOk,
                   wvars>>

\* the fetched frame is reported, its columns canonicalized and it is shown
NormalizeEvents ==
    /\ pc = "L92"
    /\ reports' = Append(reports, Report("fetched", "none", Len(df_events.rows)))
    /\ df_events' = [df_events EXCEPT !.columns = CanonColumns(@)]
    /\ rendered' = rendered \cup {"download_events"}
    /\ pc' = "L102"
    /\ UNCHANGED <<trigger, uivars, connected, df_matchups, table, calls, uploads, pre,
                   lastOk, seen, wvars>>

\* st.button("Upload Event Data to Snowflake"), nested in the fetch branch
EventUploadButton ==
    /\ pc = "L102"
    /\ rendered' = rendered \cup {"upload_events"}
    /\ pc' = IF trigger = UploadTrigger["event_level_data"]
             THEN TruncatePc["event_level_data"]
             ELSE AfterUploadPc["event_level_data"]
    /\ UNCHANGED <<trigger, uivars, connected, df_events, df_matchups, table, reports,
                   calls, uploads, pre, lastOk, seen, wvars>>

\* cur.execute("TRUNCATE TABLE ..."): an exception ends the upload with a report
Truncate ==
    \E t \in Tables, ok \in BOOLEAN :
        /\ pc = TruncatePc[t]
        /\ calls' = Append(calls, Call("truncate", t, IF ok THEN "ok" ELSE "raise", <<>>))
        /\ IF ok
           THEN /\ table' = [table EXCEPT ![t] = Truncated(@)]
                /\ pc' = InsertPc[t]
                /\ UNCHANGED reports
           ELSE /\ reports' = Append(reports, Report("upload_error", t, 0))
                /\ pc' = AfterUploadPc[t]
                /\ UNCHANGED table
        /\ UNCHANGED <<trigger, rendered, uivars, connected, df_events, df_matchups,
                       uploads, pre, lastOk, seen, wvars>>

\* the columns are upper-cased and write_pandas is called: it raises, returns
\* success = False having loaded only part of the frame, or returns success = True
Insert ==
    \E t \in Tables, outcome \in {"raise", "failed", "loaded"} :
        LET df == [FrameOf(t) EXCEPT !.columns = UpperColumns(@)]
            new == NewRows(df, uploads + 1)
        IN  /\ pc = InsertPc[t]
            /\ uploads' = uploads + 1
            /\ df_events' = IF t = "event_level_data" THEN df ELSE df_events
            /\ df_matchups' = IF t = "matchups" THEN df ELSE df_matchups
            /\ calls' = Append(calls, Call("write_pandas", t, outcome, df.columns))
            /\ \E part \in (IF outcome = "failed" THEN (SUBSET new) \ {new} ELSE {{}}) :
                table' = [table EXCEPT ![t] =
                            CASE outcome = "raise" -> InsertRaised(@, new)
                              [] outcome = "failed" -> @ \cup part
                              [] outcome = "loaded" -> InsertLoaded(@, new)]
            /\ reports' = Append(reports,
                            CASE outcome = "raise" -> Report("upload_error", t, 0)
                              [] outcome = "failed" -> Report("upload_failed", t, 0)
                              [] outcome = "loaded" -> Report("uploaded", t, Cardinality(new)))
            /\ lastOk' = IF outcome = "loaded"
                         THEN [lastOk EXCEPT ![t] = [ok |-> TRUE, data |-> DataOf(new)]]
                         ELSE lastOk
            /\ pc' = AfterUploadPc[t]
            /\ UNCHANGED <<trigger, rendered, uivars, connected, pre, seen, wvars>>

\* dedup_columns, downcast_numeric and the weather columns of the matchup frame
PrepareMatchups(df) ==
    LET d == dedup_columns(df)
    IN  IF HasColumn(d.columns, WEATHER_STR) THEN ConcatWeather(d) ELSE d

\* the file uploader, pd.read_csv and the preprocessing of the matchup frame
Matchups ==
    /\ pc = "L121"
    /\ rendered' = rendered \cup {"uploader"}
    /\ IF matchups_file = NoFile
       THEN /\ pc' = "L160"
            /\ UNCHANGED <<df_matchups, reports>>
       ELSE IF ReadCsvRaises(matchups_file)
       THEN /\ reports' = Append(reports, Report("csv_error", "none", 0))
            /\ pc' = "L160"
            /\ UNCHANGED df_matchups
       ELSE /\ df_matchups' = PrepareMatchups(read_csv(matchups_file))
            /\ pc' = "L142"
            /\ UNCHANGED reports
    /\ UNCHANGED <<trigger, uivars, connected, df_events, table, calls, uploads, pre,
                   lastOk, seen, wvars>>

\* st.button("Upload Matchups to Snowflake")
MatchupUploadButton ==
    /\ pc = "L142"
    /\ rendered' = rendered \cup {"upload_matchups"}
    /\ pc' = IF trigger = UploadTrigger["matchups"]
             THEN TruncatePc["matchups"]
             ELSE AfterUploadPc["matchups"]
    /\ UNCHANGED <<trigger, uivars, connected, df_events, df_matchups, table, reports,
                   calls, uploads, pre, lastOk, seen, wvars>>

\* the feature form; on submit pd.read_sql raises or returns the rows of the date
Features ==
    /\ pc = "L160"
    /\ rendered' = rendered \cup {"features_form"}
    /\ IF trigger = "features"
       THEN \E ok \in BOOLEAN :
            /\ calls' = Append(calls, Call("read_sql", "today_features",
                                           IF ok THEN "ok" ELSE "raise", <<>>))
            /\ reports' = Append(reports,
                            IF ok THEN Report("features", "today_features", 0)
                            ELSE Report("features_error", "today_features", 0))
       ELSE UNCHANGED <<calls, reports>>
    /\ EndRun
    /\ UNCHANGED <<trigger, uivars, connected, table, uploads, pre, lastOk, wvars>>

\* another session, which shares the cached connection, reads a table while this
\* session's script runs
Read ==
    \E t \in Tables :
        LET uploading == pc \in {TruncatePc[t], InsertPc[t]}
        IN  /\ pc # "idle"
            /\ seen' = [table |-> t, rows |-> table[t], uploading |-> uploading,
                        old |-> IF uploading THEN pre[t] ELSE {},
                        new |-> IF uploading THEN NewRows(FrameOf(t), uploads + 1) ELSE {}]
            /\ seen' # seen
            /\ UNCHANGED <<pc, trigger, rendered, uivars, connected, df_events,
                           df_matchups, table, reports, calls, uploads, pre, lastOk, wvars>>

Next ==
    \/ Reload
    \/ SetDates
    \/ ClickFetch
    \/ ClickUploadEvents
    \/ ChooseFile
    \/ ClickUploadMatchups
    \/ SubmitFeatures
    \/ Connect
    \/ CheckDates
    \/ FetchButton
    \/ Fetch
    \/ NormalizeEvents
    \/ EventUploadButton
    \/ Truncate
    \/ Insert
    \/ Matchups
    \/ MatchupUploadButton
    \/ Features
    \/ Read

Spec == Init /\ [][Next]_vars

----------------------------------------------------------------------------
(* The weather parser on its own                                           *)

\* pieces the weather descriptions are put together from
Tokens ==
    { <<"7">>, <<"7","2">>, <<"0">>, <<"1","0","0","0">>, <<"-">>, <<" ">>, <<"%">>,
      <<"O">>, <<"S","W">>, <<"m","p","h">>,
      <<"1","0","-","1","5","m","p","h">>,
      <<"5"," ","-"," ","8"," ","m","p","h">>,
      <<"I","n","d","o","o","r">>, <<"o","u","t","d","o","o","r">> }

RECURSIVE Flatten(_)
Flatten(toks) == IF toks = <<>> THEN <<>> ELSE Head(toks) \o Flatten(Tail(toks))

WeatherInputs ==
    {Missing} \cup {Flatten(toks) : toks \in UNION {[1..n -> Tokens] : n \in 0..MaxTokens}}

InitParse ==
    /\ winput \in WeatherInputs
    /\ wresult = NotParsed
    /\ pc = "idle"
    /\ trigger = "load"
    /\ rendered = {}
    /\ start_date = 1
    /\ end_date = 2
    /\ matchups_file = NoFile
    /\ connected = FALSE
    /\ df_events = NoDf
    /\ df_matchups = NoDf
    /\ table = [t \in Tables |-> {}]
    /\ reports = <<>>
    /\ calls = <<>>
    /\ uploads = 0
    /\ pre = table
    /\ lastOk = [t \in Tables |-> NoUpload]
    /\ seen = NotSeen

\* weather_parsed = parse_custom_weather_string_v2(s)
ParseWeather ==
    /\ wresult = NotParsed
    /\ wresult' = <<parse_custom_weather_string_v2(winput)>>
    /\ UNCHANGED <<winput, pvars>>

NextParse == ParseWeather

SpecParse == InitParse /\ [][NextParse]_vars

----------------------------------------------------------------------------
(* Properties                                                              *)

HasReport(kind, t) ==
    \E i \in 1..Len(reports) : reports[i].kind = kind /\ reports[i].table = t

CallsOf(op, t) == {i \in 1..Len(calls) : calls[i].op = op /\ calls[i].table = t}

\* number of rows of the record set the run uploads to table t
RecordSetSize(t) ==
    IF t = "matchups" THEN matchups_file.nrows
    ELSE LET i == CHOOSE j \in 1..Len(reports) : reports[j].kind = "fetched"
         IN  reports[i].n

\* C1: once an upload to a table is reported successful, the table holds exactly
\* the M rows that upload loaded and none of the N rows it held when the run began.
C1_SuccessfulUploadReplaces ==
    \A t \in Tables :
        HasReport("uploaded", t) =>
            /\ \A r \in table[t] : r.batch = uploads
            /\ Cardinality(table[t]) = RecordSetSize(t)
            /\ table[t] \cap pre[t] = {}

\* C1 witness: a successful upload of a non-empty record set over a non-empty table
C1_Witness ==
    /\ HasReport("uploaded", "matchups")
    /\ pre["matchups"] # {}
    /\ matchups_file.nrows >= 1

\* C2: whatever a concurrent reader reads from a table while an upload to it runs is
\* the complete old contents or the complete new contents.
C2_ReadersSeeOldOrNew ==
    seen.uploading => (seen.rows = seen.old \/ seen.rows = seen.new)

\* C3: when write_pandas raises after the TRUNCATE of the same upload, an upload
\* error is reported, the table is empty, and the run issued one TRUNCATE and one
\* write_pandas for that table and no more.
C3_RaiseAfterTruncateLeavesEmpty ==
    \A t \in Tables :
        \A i \in CallsOf("write_pandas", t) :
            calls[i].outcome = "raise" =>
                /\ \E j \in CallsOf("truncate", t) : j < i /\ calls[j].outcome = "ok"
                /\ HasReport("upload_error", t)
                /\ ~HasReport("uploaded", t)
                /\ table[t] = {}
                /\ Cardinality(CallsOf("truncate", t)) = 1
                /\ Cardinality(CallsOf("write_pandas", t)) = 1

\* C3 witness: write_pandas raised in an upload of rows over a table that had rows
C3_Witness ==
    /\ \E i \in CallsOf("write_pandas", "matchups") : calls[i].outcome = "raise"
    /\ pre["matchups"] # {}
    /\ matchups_file.nrows >= 1
    /\ pc = "idle"

\* C4: between runs, the contents of a table are the record set of the last upload
\* to it that was reported successful.
C4_ContentsAreLastSuccessfulUpload ==
    \A t \in Tables :
        (pc = "idle" /\ lastOk[t].ok) => DataOf(table[t]) = lastOk[t].data

\* C5: in a run with start_date after end_date no external call is made (no fetch,
\* no TRUNCATE, no bulk insert, no feature query, no connect), the run does not get
\* past the date check and it ends with the date error reported.
C5_InvalidRangeNoExternalCall ==
    start_date > end_date =>
        /\ calls = <<>>
        /\ pc \in {"L26", "L71", "idle"}
        /\ (pc = "idle" => HasReport("date_error", "none"))

\* C5 witness: a run with an invalid range has ended
C5_Witness ==
    /\ start_date > end_date
    /\ pc = "idle"
    /\ trigger = "dates"
    /\ HasReport("date_error", "none")

\* C6: when the fetch returned zero rows, the run has stopped with the no-data
\* warning, without the success report, and it issued no TRUNCATE and no bulk insert
\* on event_level_data, whose contents are those of the start of the run.
C6_EmptyFetchNoLoad ==
    (\E i \in 1..Len(calls) : calls[i].op = "statcast" /\ calls[i].outcome = "empty") =>
        /\ pc = "idle"
        /\ HasReport("no_data", "none")
        /\ ~HasReport("fetched", "none")
        /\ CallsOf("truncate", "event_level_data") = {}
        /\ CallsOf("write_pandas", "event_level_data") = {}
        /\ table["event_level_data"] = pre["event_level_data"]

\* C6 witness: a fetch returned zero rows while event_level_data held rows
C6_Witness ==
    /\ \E i \in 1..Len(calls) : calls[i].op = "statcast" /\ calls[i].outcome = "empty"
    /\ trigger = "fetch"
    /\ table["event_level_data"] # {}

\* C7: the column names of every frame handed to write_pandas are pairwise distinct.
C7_InsertedColumnsDistinct ==
    \A i \in 1..Len(calls) :
        calls[i].op = "write_pandas" =>
            \A j, k \in 1..Len(calls[i].columns) :
                j # k => calls[i].columns[j] # calls[i].columns[k]

\* no sub-pattern of the weather parser matches the string
NoSubPattern(str) ==
    /\ TempMatches(str) = {}
    /\ WindVectorMatches(str) = {}
    /\ WindFieldDirMatches(str) = {}
    /\ MphRangeMatches(str) = {}
    /\ MphSingleMatches(str) = {}
    /\ HumidityMatches(str) = {}
    /\ ~Contains(Lower(str), OUTDOOR)
    /\ ~Contains(Lower(str), INDOOR)

\* C8: for a non-missing string that matches no sub-pattern the parser returns all
\* seven fields absent, wind_dir_string included.
C8_NoMatchAllAbsent ==
    (wresult # NotParsed /\ winput # Missing /\ NoSubPattern(winput)) =>
        wresult[1] = AllNaN

\* length of the whole run of digits that starts at position p
FullDigitRun(str, p) == DigitRun(str, p, Len(str))

\* position i starts an mph segment: a number, a hyphen, a number, "mph", with
\* optional whitespace between them
IsMphSegment(str, i) ==
    LET k == FullDigitRun(str, i)
        q == i + k + SpaceRun(str, i + k)
        r == q + 1 + SpaceRun(str, q + 1)
        n == FullDigitRun(str, r)
        u == r + n + SpaceRun(str, r + n)
    IN  /\ IsDigit(At(str, i))
        /\ ~IsDigit(At(str, i - 1))
        /\ At(str, q) = "-"
        /\ IsDigit(At(str, r))
        /\ <<At(str, u), At(str, u + 1), At(str, u + 2)>> = <<"m", "p", "h">>

\* the mph segments A-B of a string, with the lengths of A and B
MphSegments(str) ==
    {LET k == FullDigitRun(str, i)
         r == i + k + SpaceRun(str, i + k) + 1
                + SpaceRun(str, i + k + SpaceRun(str, i + k) + 1)
         n == FullDigitRun(str, r)
     IN  [at |-> i, a |-> ToInt(SubSeq(str, i, i + k - 1)), alen |-> k,
          b |-> ToInt(SubSeq(str, r, r + n - 1)), blen |-> n] :
     i \in {j \in 1..Len(str) : IsMphSegment(str, j)}}

\* the parsed wind_mph is (a + b) / 2 exactly
IsMeanOf(w, a, b) == w # NaN /\ w[1].num * 2 = (a + b) * w[1].den

\* C9 as stated: for every mph segment A-B of the input, wind_mph is (A+B)/2.
C9_RangeMeanAlways ==
    wresult # NotParsed =>
        \A seg \in MphSegments(winput) : IsMeanOf(wresult[1].wind_mph, seg.a, seg.b)

\* a digit before position i is followed by optional whitespace, a hyphen, optional
\* whitespace and a digit
EarlierHyphenPair(str, i) ==
    \E j \in 1..(i - 1) :
        LET q == j + 1 + SpaceRun(str, j + 1)
        IN  /\ IsDigit(At(str, j))
            /\ At(str, q) = "-"
            /\ IsDigit(At(str, q + 1 + SpaceRun(str, q + 1)))

\* C9 amended: for every mph segment A-B whose numbers have at most three digits
\* and before which no digit is followed by a hyphen and a digit, wind_mph is
\* (A+B)/2 exactly.
C9_RangeMeanOfFirstPair ==
    wresult # NotParsed =>
        \A seg \in MphSegments(winput) :
            (seg.alen <= 3 /\ seg.blen <= 3 /\ ~EarlierHyphenPair(winput, seg.at)) =>
                IsMeanOf(wresult[1].wind_mph, seg.a, seg.b)

\* C9 witness: a parsed string in which the segment follows other text and has an
\* odd sum
C9_Witness ==
    /\ wresult # NotParsed
    /\ \E seg \in MphSegments(winput) :
        /\ seg.alen <= 3
        /\ seg.blen <= 3
        /\ ~EarlierHyphenPair(winput, seg.at)
        /\ seg.at > 1
        /\ \E j \in 1..(seg.at - 1) : IsDigit(At(winput, j))
        /\ (seg.a + seg.b) % 2 = 1

\* C10: the run started by a click on "Upload Event Data to Snowflake" issues the
\* TRUNCATE of event_level_data and, when that succeeds, the bulk insert.
C10_EventUploadRunUploads ==
    (pc = "idle" /\ trigger = "upload_events") =>
        /\ \E i \in CallsOf("truncate", "event_level_data") :
            calls[i].outcome = "ok" =>
                \E j \in CallsOf("write_pandas", "event_level_data") : i < j

====
